---- MODULE Spec2Model ----
(***************************************************************************)
(* Model of src/installFirebaseTools.ts: resolveVersion,                   *)
(* installFirebaseTools and getFirebaseTools, run by several invocations   *)
(* that share one tool cache, one clock and one process environment.       *)
(*                                                                         *)
(* A string is a sequence of one-character strings, so that trim(),        *)
(* template literals and path.join() are computed on characters.           *)
(* An action is one run-to-completion step of the JavaScript event loop:   *)
(* the code between two awaits.                                            *)
(***************************************************************************)
EXTENDS Integers, Sequences, FiniteSets, TLC

\* ------------------------------------------------------------------ bounds
NumInvocations == 2
T0 == 9
ClockTicks == 1

Invocations == 1..NumInvocations

\* ----------------------------------------------------------------- strings
Empty == <<>>

TOOL_NAME == <<"f","i","r","e","b","a","s","e","-","t","o","o","l","s">>

Latest == <<"l","a","t","e","s","t">>

\* The argument of a call that passes no version.
Undefined == <<"undefined">>

NodeModules == <<"n","o","d","e","_","m","o","d","u","l","e","s">>

DotBin == <<".","b","i","n">>

DefaultTemp == <<"/","t","m","p">>

V910 == <<"9",".","1",".","0">>

V1002 == <<"1","0",".","0",".","2">>

V1003 == <<"1","0",".","0",".","3">>

\* The values a caller passes as `version`.
Arguments == {Undefined, Latest, V910}

\* What `npm view firebase-tools version` writes to stdout, as the chunks the
\* stdout listener receives: the published version and a line end.
RegistryOutputs ==
  { << <<" ">> \o V1002, <<" ","\n">> >>,
    << <<"1","0",".","0">>, <<".","3","\n">> >> }

\* Values of process.env.RUNNER_TEMP; Empty is the variable unset or empty.
RunnerTemps == {Empty, <<"/","r","t">>}

WhiteSpace == {" ", "\n", "\t", "\r"}

RECURSIVE trimStart(_)
trimStart(s) ==
  IF s # Empty /\ Head(s) \in WhiteSpace THEN trimStart(Tail(s)) ELSE s

RECURSIVE trimEnd(_)
trimEnd(s) ==
  IF s # Empty /\ s[Len(s)] \in WhiteSpace
    THEN trimEnd(SubSeq(s, 1, Len(s) - 1))
    ELSE s

\* String.prototype.trim
trim(s) == trimEnd(trimStart(s))

\* output += data.toString(), once per chunk
RECURSIVE Accumulate(_)
Accumulate(chunks) ==
  IF chunks = <<>> THEN Empty ELSE Head(chunks) \o Accumulate(Tail(chunks))

DigitChar == <<"0","1","2","3","4","5","6","7","8","9">>

\* The decimal text of a number, as a template literal prints it.
RECURSIVE NumberToString(_)
NumberToString(n) ==
  IF n < 10 THEN <<DigitChar[n + 1]>>
  ELSE NumberToString(n \div 10) \o <<DigitChar[(n % 10) + 1]>>

\* path.join on segments that hold no ".", ".." or doubled separator: the
\* non-empty segments with one "/" between them.
RECURSIVE pathJoin(_)
pathJoin(parts) ==
  IF parts = <<>> THEN Empty
  ELSE IF Head(parts) = Empty THEN pathJoin(Tail(parts))
  ELSE IF pathJoin(Tail(parts)) = Empty THEN Head(parts)
  ELSE Head(parts) \o <<"/">> \o pathJoin(Tail(parts))

\* ------------------------------------------------------------------- state
VARIABLES
  pc,               \* where each invocation stands
  version,          \* the parameter `version` of each invocation
  stdout,           \* the chunks the registry query of the invocation wrote
  resolvedVersion,  \* const resolvedVersion
  stamp,            \* the value of Date.now() the invocation read
  tempDir,          \* const tempDir
  installExit,      \* exit code of the invocation's npm install, -1 before it exits
  toolPath,         \* let toolPath
  result,           \* the value the invocation returned
  calls,            \* the collaborator calls of each invocation, in order
  warmAtLookup,     \* whether the store held the key when the invocation looked it up
  doneBefore,       \* the invocations that had returned when this one was called
  cache,            \* the tool cache: resolved version -> entry
  envPath,          \* process.env.PATH, as its entries in order
  runnerTemp,       \* process.env.RUNNER_TEMP
  clock             \* Date.now()

vars == <<pc, version, stdout, resolvedVersion, stamp, tempDir, installExit, toolPath,
          result, calls, warmAtLookup, doneBefore, cache, envPath, runnerTemp, clock>>

Absent == [path |-> Empty, src |-> Empty, by |-> 0]

Call(op, ver, dir) == [op |-> op, ver |-> ver, dir |-> dir]

\* The calls of invocation i to collaborator op.
CallsOf(i, op) == SelectSeq(calls[i], LAMBDA c : c.op = op)

\* ------------------------------------------------------------ collaborators
ToolCacheRoot == <<"/","t","c">>

Arch == <<"x","6","4">>

\* The directory the tool cache keeps (tool, version) in: what tc.cacheDir
\* returns and tc.find reports.
tcPath(v) == pathJoin(<<ToolCacheRoot, TOOL_NAME, v, Arch>>)

Entry(v) == IF v \in DOMAIN cache THEN cache[v] ELSE Absent

tcFind_blind(v) == Empty

\* tc.find(TOOL_NAME, v): the entry's directory, or "" when there is none.
tcFind(v) == Entry(v).path

\* The store after tc.cacheDir(dir, TOOL_NAME, v) by invocation i completed.
tcStore(i, dir, v) ==
  [w \in DOMAIN cache \cup {v} |->
     IF w = v THEN [path |-> tcPath(v), src |-> dir, by |-> i] ELSE cache[w]]

\* The versions an earlier run left in the tool cache.
PreCached == {V1002}

\* ------------------------------------------------------------ the functions
\* version: string = "latest"
defaultVersion(arg) == IF arg = Undefined THEN Latest ELSE arg

resolveVersion_unresolved(v, chunks) == v

resolveVersion_untrimmed(v, chunks) ==
  IF v # Latest THEN v ELSE Accumulate(chunks)

\* resolveVersion, given the chunks the registry query wrote
resolveVersion(v, chunks) ==
  IF v # Latest THEN v ELSE trim(Accumulate(chunks))

tempDirName_noStamp(base, v, now) ==
  pathJoin(<< IF base # Empty THEN base ELSE DefaultTemp,
              TOOL_NAME \o <<"-">> \o v >>)

\* `firebase-tools-${resolvedVersion}-${Date.now()}` under RUNNER_TEMP || "/tmp"
tempDirName(base, v, now) ==
  pathJoin(<< IF base # Empty THEN base ELSE DefaultTemp,
              TOOL_NAME \o <<"-">> \o v \o <<"-">> \o NumberToString(now) >>)

\* path.join(root, "node_modules", ".bin")
binPathOf(root) == pathJoin(<<root, NodeModules, DotBin>>)

Init ==
  /\ pc = [i \in Invocations |-> "Start"]
  /\ version = [i \in Invocations |-> Empty]
  /\ stdout = [i \in Invocations |-> <<>>]
  /\ resolvedVersion = [i \in Invocations |-> Empty]
  /\ stamp = [i \in Invocations |-> 0]
  /\ tempDir = [i \in Invocations |-> Empty]
  /\ installExit = [i \in Invocations |-> -1]
  /\ toolPath = [i \in Invocations |-> Empty]
  /\ result = [i \in Invocations |-> Empty]
  /\ calls = [i \in Invocations |-> <<>>]
  /\ warmAtLookup = [i \in Invocations |-> FALSE]
  /\ doneBefore = [i \in Invocations |-> {}]
  /\ cache = [w \in PreCached |-> [path |-> tcPath(w), src |-> Empty, by |-> 0]]
  /\ envPath = << <<"/","b","i","n">> >>
  /\ runnerTemp \in RunnerTemps
  /\ clock = T0

\* getFirebaseTools is called: lines 71-73, up to the await of resolveVersion,
\* which has started the registry query when the version is "latest".
getFirebaseTools(i, arg) ==
  /\ pc[i] = "Start"
  /\ version' = [version EXCEPT ![i] = defaultVersion(arg)]
  /\ calls' = [calls EXCEPT ![i] =
       IF defaultVersion(arg) = Latest
         THEN <<Call("npm view", Empty, Empty)>> ELSE <<>>]
  /\ doneBefore' = [doneBefore EXCEPT ![i] = {j \in Invocations : pc[j] = "Done"}]
  /\ pc' = [pc EXCEPT ![i] = "Resolving"]
  /\ UNCHANGED <<stdout, resolvedVersion, stamp, tempDir, installExit, toolPath, result,
                 warmAtLookup, cache, envPath, runnerTemp, clock>>

\* The registry query fails: resolveVersion rejects, and so does the call.
ResolveRejects(i) ==
  /\ pc[i] = "Resolving"
  /\ version[i] = Latest
  /\ pc' = [pc EXCEPT ![i] = "Failed"]
  /\ UNCHANGED <<version, stdout, resolvedVersion, stamp, tempDir, installExit, toolPath,
                 result, calls, warmAtLookup, doneBefore, cache, envPath, runnerTemp,
                 clock>>

Finish_appends(i, root, sofar) ==
  /\ toolPath' = [toolPath EXCEPT ![i] = root]
  /\ envPath' = envPath \o <<binPathOf(root)>>
  /\ calls' = [calls EXCEPT ![i] =
       sofar \o <<Call("addPath", Empty, binPathOf(root))>>]
  /\ result' = [result EXCEPT ![i] = binPathOf(root)]
  /\ pc' = [pc EXCEPT ![i] = "Done"]

\* Lines 98-105 with install root `root`, after the calls `sofar`.
Finish(i, root, sofar) ==
  /\ toolPath' = [toolPath EXCEPT ![i] = root]
  /\ envPath' = <<binPathOf(root)>> \o envPath
  /\ calls' = [calls EXCEPT ![i] =
       sofar \o <<Call("addPath", Empty, binPathOf(root))>>]
  /\ result' = [result EXCEPT ![i] = binPathOf(root)]
  /\ pc' = [pc EXCEPT ![i] = "Done"]

\* resolveVersion returns: lines 73-80 and 98-105 on a hit, lines 73-91 up to
\* the await of the install on a miss (mkdirOk: whether fs.mkdirSync succeeds).
Lookup(i, chunks, mkdirOk) ==
  /\ pc[i] = "Resolving"
  /\ chunks \in (IF version[i] = Latest THEN RegistryOutputs ELSE {<<>>})
  /\ LET v == resolveVersion(version[i], chunks)
         found == tcFind(v)
         dir == tempDirName(runnerTemp, v, clock)
         looked == calls[i] \o <<Call("find", v, Empty)>>
     IN /\ stdout' = [stdout EXCEPT ![i] = chunks]
        /\ resolvedVersion' = [resolvedVersion EXCEPT ![i] = v]
        /\ warmAtLookup' = [warmAtLookup EXCEPT ![i] = v \in DOMAIN cache]
        /\ IF found # Empty
             THEN /\ mkdirOk
                  /\ Finish(i, found, looked)
                  /\ UNCHANGED <<stamp, tempDir>>
             ELSE /\ stamp' = [stamp EXCEPT ![i] = clock]
                  /\ tempDir' = [tempDir EXCEPT ![i] = dir]
                  /\ calls' = [calls EXCEPT ![i] =
                       looked \o <<Call("mkdir", Empty, dir)>> \o
                       (IF mkdirOk THEN <<Call("npm install", v, dir)>> ELSE <<>>)]
                  /\ pc' = [pc EXCEPT ![i] = IF mkdirOk THEN "Installing" ELSE "Failed"]
                  /\ UNCHANGED <<toolPath, result, envPath>>
  /\ UNCHANGED <<version, installExit, doneBefore, cache, runnerTemp, clock>>

\* npm install exits 0: installFirebaseTools returns, line 94 calls tc.cacheDir.
InstallSucceeds(i) ==
  /\ pc[i] = "Installing"
  /\ installExit' = [installExit EXCEPT ![i] = 0]
  /\ calls' = [calls EXCEPT ![i] =
       @ \o <<Call("cacheDir", resolvedVersion[i], tempDir[i])>>]
  /\ pc' = [pc EXCEPT ![i] = "Caching"]
  /\ UNCHANGED <<version, stdout, resolvedVersion, stamp, tempDir, toolPath, result,
                 warmAtLookup, doneBefore, cache, envPath, runnerTemp, clock>>

InstallFails_swallowed(i) ==
  /\ pc[i] = "Installing"
  /\ installExit' = [installExit EXCEPT ![i] = 1]
  /\ calls' = [calls EXCEPT ![i] =
       @ \o <<Call("cacheDir", resolvedVersion[i], tempDir[i])>>]
  /\ pc' = [pc EXCEPT ![i] = "Caching"]
  /\ UNCHANGED <<version, stdout, resolvedVersion, stamp, tempDir, toolPath, result,
                 warmAtLookup, doneBefore, cache, envPath, runnerTemp, clock>>

InstallFails_retries(i) ==
  /\ pc[i] = "Installing"
  /\ installExit[i] = -1
  /\ installExit' = [installExit EXCEPT ![i] = 1]
  /\ calls' = [calls EXCEPT ![i] =
       @ \o <<Call("npm install", resolvedVersion[i], tempDir[i])>>]
  /\ UNCHANGED <<pc, version, stdout, resolvedVersion, stamp, tempDir, toolPath, result,
                 warmAtLookup, doneBefore, cache, envPath, runnerTemp, clock>>

\* npm install exits non-zero: exec rejects, and so does the call.
InstallFails(i) ==
  /\ pc[i] = "Installing"
  /\ installExit' = [installExit EXCEPT ![i] = 1]
  /\ pc' = [pc EXCEPT ![i] = "Failed"]
  /\ UNCHANGED <<version, stdout, resolvedVersion, stamp, tempDir, toolPath, result, calls,
                 warmAtLookup, doneBefore, cache, envPath, runnerTemp, clock>>

CacheDirResolves_tempRoot(i) ==
  /\ pc[i] = "Caching"
  /\ cache' = tcStore(i, tempDir[i], resolvedVersion[i])
  /\ Finish(i, tempDir[i], calls[i])
  /\ UNCHANGED <<version, stdout, resolvedVersion, stamp, tempDir, installExit,
                 warmAtLookup, doneBefore, runnerTemp, clock>>

CacheDirResolves_rawKey(i) ==
  /\ pc[i] = "Caching"
  /\ cache' = tcStore(i, tempDir[i], version[i])
  /\ Finish(i, tcPath(version[i]), calls[i])
  /\ UNCHANGED <<version, stdout, resolvedVersion, stamp, tempDir, installExit,
                 warmAtLookup, doneBefore, runnerTemp, clock>>

\* tc.cacheDir resolves: lines 94-105.
CacheDirResolves(i) ==
  /\ pc[i] = "Caching"
  /\ cache' = tcStore(i, tempDir[i], resolvedVersion[i])
  /\ Finish(i, tcPath(resolvedVersion[i]), calls[i])
  /\ UNCHANGED <<version, stdout, resolvedVersion, stamp, tempDir, installExit,
                 warmAtLookup, doneBefore, runnerTemp, clock>>

\* tc.cacheDir rejects, and so does the call.
CacheDirRejects(i) ==
  /\ pc[i] = "Caching"
  /\ pc' = [pc EXCEPT ![i] = "Failed"]
  /\ UNCHANGED <<version, stdout, resolvedVersion, stamp, tempDir, installExit, toolPath,
                 result, calls, warmAtLookup, doneBefore, cache, envPath, runnerTemp,
                 clock>>

\* A millisecond passes.
Tick ==
  /\ clock < T0 + ClockTicks
  /\ clock' = clock + 1
  /\ UNCHANGED <<pc, version, stdout, resolvedVersion, stamp, tempDir, installExit,
                 toolPath, result, calls, warmAtLookup, doneBefore, cache, envPath,
                 runnerTemp>>

Next ==
  \/ \E i \in Invocations, arg \in Arguments : getFirebaseTools(i, arg)
  \/ \E i \in Invocations : ResolveRejects(i)
  \/ \E i \in Invocations, chunks \in RegistryOutputs \cup {<<>>}, mkdirOk \in BOOLEAN :
       Lookup(i, chunks, mkdirOk)
  \/ \E i \in Invocations : InstallSucceeds(i)
  \/ \E i \in Invocations : InstallFails(i)
  \/ \E i \in Invocations : CacheDirResolves(i)
  \/ \E i \in Invocations : CacheDirRejects(i)
  \/ Tick

Spec == Init /\ [][Next]_vars

\* ------------------------------------------------------------------ claims
Suffix == <<"/">> \o NodeModules \o <<"/">> \o DotBin

Ops(i) == [k \in 1..Len(calls[i]) |-> calls[i][k].op]

Looked(i) == CallsOf(i, "find") # <<>>

Installs(i) == Len(CallsOf(i, "npm install"))

Persists(i) == Len(CallsOf(i, "cacheDir"))

\* C1: an invocation whose npm install exited non-zero never calls tc.cacheDir,
\* and no entry of the tool cache was stored by it.
C1_NoPersistAfterFailedInstall ==
  \A i \in Invocations :
    installExit[i] = 1 =>
      /\ Persists(i) = 0
      /\ \A v \in DOMAIN cache : cache[v].by # i

C1_Witness ==
  \E i \in Invocations :
    /\ installExit[i] = 1
    /\ pc[i] = "Failed"
    /\ Installs(i) = 1

\* C2: an invocation that returned after the store had no entry for its
\* resolved version made exactly one npm install call, for that version, then
\* exactly one tc.cacheDir call under that version, and returned the stored
\* entry's directory, not the temporary one, with /node_modules/.bin appended.
C2_MissInstallsOncePersistsOnce ==
  \A i \in Invocations :
    (pc[i] = "Done" /\ ~warmAtLookup[i]) =>
      /\ CallsOf(i, "npm install") =
           <<Call("npm install", resolvedVersion[i], tempDir[i])>>
      /\ CallsOf(i, "cacheDir") =
           <<Call("cacheDir", resolvedVersion[i], tempDir[i])>>
      /\ \E a, b \in 1..Len(calls[i]) :
           a < b /\ calls[i][a].op = "npm install" /\ calls[i][b].op = "cacheDir"
      /\ resolvedVersion[i] \in DOMAIN cache
      /\ result[i] = Entry(resolvedVersion[i]).path \o Suffix
      /\ result[i] # tempDir[i] \o Suffix

C2_Witness ==
  \E i \in Invocations :
    /\ pc[i] = "Done"
    /\ ~warmAtLookup[i]
    /\ version[i] = V910
    /\ cache[V910].by = i

\* C3: an invocation that looked up a version the store held made no npm
\* install call and no tc.cacheDir call, and returned the entry's directory
\* with /node_modules/.bin appended.
C3_HitInstallsNothing ==
  \A i \in Invocations :
    warmAtLookup[i] =>
      /\ Installs(i) = 0
      /\ Persists(i) = 0
      /\ CallsOf(i, "mkdir") = <<>>
      /\ pc[i] = "Done"
      /\ result[i] = Entry(resolvedVersion[i]).path \o Suffix

C3_Witness ==
  \E i \in Invocations :
    /\ warmAtLookup[i]
    /\ version[i] = Latest
    /\ resolvedVersion[i] = V1002
    /\ pc[i] = "Done"

C5_Original ==
  \A i, j \in Invocations :
    (j \in doneBefore[i] /\ version[i] = version[j] /\ Looked(i)) =>
      /\ Installs(i) + Installs(j) <= 1
      /\ warmAtLookup[i] /\ pc[i] = "Done" /\ tempDir[i] = Empty

\* C5: when an invocation is called after another one with the same version
\* argument has returned, and both resolve to the same version, the two make
\* at most one npm install call together and the later one takes the hit
\* branch.
C5_IdempotentOnSameResolvedVersion ==
  \A i, j \in Invocations :
    (/\ j \in doneBefore[i]
     /\ version[i] = version[j]
     /\ Looked(i)
     /\ resolvedVersion[i] = resolvedVersion[j]) =>
      /\ Installs(i) + Installs(j) <= 1
      /\ warmAtLookup[i] /\ pc[i] = "Done" /\ tempDir[i] = Empty

C5_Witness ==
  \E i, j \in Invocations :
    /\ j \in doneBefore[i]
    /\ version[i] = Latest /\ version[j] = Latest
    /\ resolvedVersion[i] = resolvedVersion[j]
    /\ Installs(j) = 1
    /\ pc[i] = "Done"

\* r is raw without its leading and trailing white space, and nothing else
\* removed or changed.
IsTrimOf(r, raw) ==
  /\ r # Empty => (r[1] \notin WhiteSpace /\ r[Len(r)] \notin WhiteSpace)
  /\ \E a \in 0..Len(raw) : \E b \in a..Len(raw) :
       /\ r = SubSeq(raw, a + 1, b)
       /\ \A k \in (1..a) \cup ((b + 1)..Len(raw)) : raw[k] \in WhiteSpace

\* C6: an invocation queries the registry exactly when its version is
\* "latest", and then once; a version other than "latest" is resolved to
\* itself, and "latest" to the query's output without its surrounding white
\* space.
C6_ResolveQueriesOnlyForLatest ==
  \A i \in Invocations :
    /\ pc[i] # "Start" =>
         Len(CallsOf(i, "npm view")) = (IF version[i] = Latest THEN 1 ELSE 0)
    /\ Looked(i) =>
         IF version[i] # Latest
           THEN resolvedVersion[i] = version[i]
           ELSE IsTrimOf(resolvedVersion[i], Accumulate(stdout[i]))

C6_Witness ==
  \E i, j \in Invocations :
    /\ version[i] = Latest /\ Looked(i)
    /\ Len(stdout[i]) = 2
    /\ Len(Accumulate(stdout[i])) > Len(resolvedVersion[i]) + 1
    /\ version[j] = V910 /\ Looked(j)

BecomesDone(i) == pc[i] # "Done" /\ pc'[i] = "Done"

\* A step that returns from an invocation puts the returned directory in
\* front of the search path; any other step leaves the search path alone.
PathStep ==
  /\ \A i \in Invocations :
       BecomesDone(i) =>
         /\ result'[i] # Empty
         /\ envPath' = <<result'[i]>> \o envPath
  /\ (~ \E i \in Invocations : BecomesDone(i)) => envPath' = envPath

\* C7: a step changes the search path exactly when it is the step in which an
\* invocation returns, and that step puts the returned directory, once, in
\* front of the entries there were; a step in which an invocation fails
\* leaves the search path as it was.
C7_PathChangesIffSuccess == [][PathStep]_vars

C7_Witness ==
  \E i, j \in Invocations :
    /\ pc[i] = "Done" /\ pc[j] = "Failed" /\ Looked(j)
    /\ envPath = <<result[i], <<"/","b","i","n">> >>

\* No entry a successful install stored is rewritten, and no tc.cacheDir call
\* is issued for its version.
EntriesFrozen ==
  \A v \in DOMAIN cache :
    cache[v].by # 0 =>
      /\ cache'[v] = cache[v]
      /\ \A i \in Invocations :
           resolvedVersion[i] = v => Persists(i)' = Persists(i)

\* C8 as stated: once a successful install has put an entry in the store, no
\* step rewrites that entry or issues another tc.cacheDir call for its version.
C8_Original == [][EntriesFrozen]_vars

\* An entry is rewritten, and a tc.cacheDir call for its version issued, only
\* by an invocation that looked the version up before the entry was there.
RewrittenByEarlierMissOnly ==
  \A v \in DOMAIN cache :
    /\ cache'[v] # cache[v] =>
         /\ cache'[v].by \in Invocations
         /\ ~warmAtLookup[cache'[v].by]
         /\ cache'[v].path = cache[v].path
    /\ \A i \in Invocations :
         (resolvedVersion[i] = v /\ Persists(i)' # Persists(i)) => ~warmAtLookup[i]

\* C8: once the store holds an entry for a version, a step rewrites that
\* entry or issues another tc.cacheDir call for that version only on behalf
\* of an invocation that looked the version up before the entry was there; an
\* invocation that looks it up afterwards never persists.
C8_OnlyEarlierMissesPersistAgain == [][RewrittenByEarlierMissOnly]_vars

C8_Witness ==
  \E i, j \in Invocations :
    /\ i # j
    /\ resolvedVersion[i] = resolvedVersion[j]
    /\ pc[i] = "Done" /\ pc[j] = "Done"
    /\ Persists(i) = 1 /\ Persists(j) = 1
    /\ cache[resolvedVersion[i]].by = j

\* C9 as stated: any two install attempts have distinct temporary directories.
C9_Original ==
  \A i, j \in Invocations :
    (i # j /\ tempDir[i] # Empty /\ tempDir[j] # Empty) => tempDir[i] # tempDir[j]

\* C9: two install attempts that differ in the resolved version or in the
\* timestamp they read have distinct temporary directories.
C9_DistinctWhenVersionOrStampDiffer ==
  \A i, j \in Invocations :
    (/\ i # j
     /\ tempDir[i] # Empty /\ tempDir[j] # Empty
     /\ (resolvedVersion[i] # resolvedVersion[j] \/ stamp[i] # stamp[j])) =>
      tempDir[i] # tempDir[j]

C9_Witness ==
  \E i, j \in Invocations :
    /\ i # j
    /\ tempDir[i] # Empty /\ tempDir[j] # Empty
    /\ resolvedVersion[i] = resolvedVersion[j]
    /\ stamp[i] < stamp[j]

Query(i) == IF version[i] = Latest THEN <<"npm view">> ELSE <<>>

MissOps == <<"find", "mkdir", "npm install", "cacheDir", "addPath">>

\* The collaborator calls an invocation at pc[i] has made, in order.
Shape(i) ==
  CASE pc[i] = "Start" -> Ops(i) = <<>>
    [] pc[i] = "Resolving" -> Ops(i) = Query(i)
    [] pc[i] = "Installing" -> Ops(i) = Query(i) \o SubSeq(MissOps, 1, 3)
    [] pc[i] = "Caching" -> Ops(i) = Query(i) \o SubSeq(MissOps, 1, 4)
    [] pc[i] = "Done" ->
         \/ Ops(i) = Query(i) \o <<"find", "addPath">>
         \/ Ops(i) = Query(i) \o MissOps
    [] pc[i] = "Failed" ->
         \/ version[i] = Latest /\ Ops(i) = Query(i)
         \/ \E n \in 2..4 : Ops(i) = Query(i) \o SubSeq(MissOps, 1, n)

\* Every invocation's calls have the shape its position allows, and all
\* carry its one resolved version.
WellShaped ==
  \A i \in Invocations :
    /\ Shape(i)
    /\ \A k \in 1..Len(calls[i]) : calls[i][k].ver \in {Empty, resolvedVersion[i]}

\* An invocation that returned or failed takes no further step.
TerminalStays ==
  \A i \in Invocations :
    pc[i] \in {"Done", "Failed"} => (pc'[i] = pc[i] /\ calls'[i] = calls[i])

\* C10: the calls of an invocation are, in order, the registry query (for
\* "latest" only), the lookup, then either addPath, or mkdir, npm install,
\* tc.cacheDir and addPath, each at most once and all for the one resolved
\* version; an invocation that failed or returned makes no further call and
\* stays where it is.
C10_StateMachine == []WellShaped /\ [][TerminalStays]_vars

C10_Witness ==
  \E i, j \in Invocations :
    /\ pc[i] = "Done" /\ Ops(i) = <<"npm view">> \o MissOps
    /\ pc[j] = "Failed" /\ Ops(j) = SubSeq(MissOps, 1, 4)

====
